---- MODULE Spec2Model ----
(***************************************************************************)
(* State machine of the SumGame engine in src/src/App.tsx: the React state *)
(* of App (mode, blocks, selectedIds, targetSum, score, isGameOver,        *)
(* timeLeft, highScore, isPaused), its event handlers (startGame,          *)
(* handleBlockClick, the pause and quit buttons, the interval callback)    *)
(* and the effects React runs after every committed render (check sum,     *)
(* update high score).  An action is one event together with the effects   *)
(* that follow it before the next event is handled.                        *)
(***************************************************************************)
EXTENDS Integers, Sequences, FiniteSets, TLC

\* ------------------------------------------------------------------------
\* Program constants (src/src/App.tsx:517-520, :57, :23, :163)
GRID_COLS == 6
GRID_ROWS == 10
INITIAL_ROWS == 4
TIME_LIMIT == 10
\* setInterval subtracts 0.1 from timeLeft: ten decrements per second.
TICKS_PER_SECOND == 10
\* generateTarget: Math.floor(Math.random() * 16) + 10
TARGET_BASE == 10
TARGET_SPAN == 16
\* getRandomValue: Math.floor(Math.random() * 9) + 1
VALUE_SPAN == 9

\* ------------------------------------------------------------------------
\* Bounds of the exploration
\* generateTarget draws floor(random * 16) from 0 .. MaxTargetDraw only.
MaxTargetDraw == 1
\* The streams of tile values a session can draw: seeds 1 .. NumSeeds.
NumSeeds == 1
\* The player clicks among the ClickTiles tiles nearest the top of the board.
ClickTiles == 2
\* In time mode the player acts (click, pause, quit) within the first or the
\* last InputWindow tenths of a round, or once the time has run below zero.
InputWindow == 1
\* In time mode clicks are explored while score < MaxTimedScore.
MaxTimedScore == 1
\* In classic mode clicks are explored while score < MaxClassicScore.
MaxClassicScore == 250
\* startGame is explored while the carried high score is <= MaxCarriedHigh.
MaxCarriedHigh == 20

\* The useState cells of App (src/src/App.tsx:27-37) and the random sources.
VARIABLES
    mode,         \* :27  "none" (null, the menu) | "classic" | "time"
    blocks,       \* :30  sequence of [id, value, row, col]
    selectedIds,  \* :31  sequence of ids, in insertion order
    targetSum,    \* :32
    score,        \* :33
    isGameOver,   \* :34
    timeLeft,     \* :35  in tenths of a second, see FullTime
    highScore,    \* :36
    isPaused,     \* :37
    idCount,      \* :20  ids generateId has handed out in this session
    seed          \* :22  the stream getRandomValue draws from in this session

vars == <<mode, blocks, selectedIds, targetSum, score, isGameOver, timeLeft,
          highScore, isPaused, idCount, seed>>

\* ------------------------------------------------------------------------
\* timeLeft is an IEEE-754 double that starts at TIME_LIMIT and loses 0.1 per
\* tick.  The model keeps the nominal number of tenths, FullTime - k after k
\* decrements; the double it stands for is v(k), with v(0) = 10 exactly and
\* v(k) = v(k-1) - 0.1 in double arithmetic.  v(k) lies slightly above the
\* nominal value at every multiple of ten decrements (v(10) =
\* 9.000000000000004, v(100) = 1.88e-14) and v(101) = -0.09999999999998.
FullTime == TIME_LIMIT * TICKS_PER_SECOND

\* prev <= 0 on the double: false for v(100) > 0, true from v(101) on.
NonPositive(t) == t < 0

\* Math.ceil(timeLeft) on the double.
CeilTime(t) ==
    IF t = FullTime THEN TIME_LIMIT
    ELSE IF t < 0 THEN 0
    ELSE (t \div TICKS_PER_SECOND) + 1

\* ------------------------------------------------------------------------
\* Random sources
TargetDraws == 0 .. MaxTargetDraw
Seeds == 1 .. NumSeeds

generateTarget(r) == r + TARGET_BASE

\* floor(random * 9) for the tile of column c in the stream sd.
Draw(sd, c) == (4 * sd + (c % 2)) % VALUE_SPAN

getRandomValue(sd, c) == Draw(sd, c) + 1

\* ------------------------------------------------------------------------
\* Helpers on sequences
Range(s) == {s[i] : i \in DOMAIN s}

RECURSIVE SumValues(_, _)
SumValues(bs, i) ==
    IF i > Len(bs) THEN 0 ELSE bs[i].value + SumValues(bs, i + 1)

\* blocks.filter(b => selectedIds.includes(b.id))
SelectedBlocks(bs, sel) ==
    LET ids == Range(sel) IN SelectSeq(bs, LAMBDA b : b.id \in ids)

\* .reduce((sum, b) => sum + b.value, 0)
currentSum(bs, sel) == SumValues(SelectedBlocks(bs, sel), 1)

\* prev.filter(b => !selectedIds.includes(b.id))
RemoveSelected(bs, sel) ==
    LET ids == Range(sel) IN SelectSeq(bs, LAMBDA b : b.id \notin ids)

\* ------------------------------------------------------------------------
\* addNewRow: the setBlocks updater.  first is the first fresh id.
NewRow(first, sd) ==
    [c \in 1 .. GRID_COLS |->
        [id |-> first + c - 1, value |-> getRandomValue(sd, c - 1),
         row |-> GRID_ROWS - 1, col |-> c - 1]]

\* Variant: the rows are not moved up before the new row is appended.
Shifted_KeepsRows(prev) == prev

Shifted(prev) == [i \in DOMAIN prev |-> [prev[i] EXCEPT !.row = @ - 1]]

\* Variant: the overflow is noticed one row late.
Overflows_OneRowLate(prev) == \E i \in DOMAIN prev : Shifted(prev)[i].row < -1

Overflows(prev) == \E i \in DOMAIN prev : Shifted(prev)[i].row < 0

\* Variant: the overflow is flagged but the shifted board and the new row are
\* returned all the same.
addNewRow_AppendsOnOverflow(prev, first, sd) ==
    [blocks |-> Shifted(prev) \o NewRow(first, sd), over |-> Overflows(prev),
     made |-> GRID_COLS]

addNewRow(prev, first, sd) ==
    IF Overflows(prev)
    THEN [blocks |-> prev, over |-> TRUE, made |-> 0]
    ELSE [blocks |-> Shifted(prev) \o NewRow(first, sd), over |-> FALSE,
          made |-> GRID_COLS]

\* startGame's nested loops: rows GRID_ROWS - INITIAL_ROWS .. GRID_ROWS - 1.
InitialBlocks(sd) ==
    [k \in 1 .. INITIAL_ROWS * GRID_COLS |->
        [id |-> k, value |-> getRandomValue(sd, (k - 1) % GRID_COLS),
         row |-> (GRID_ROWS - INITIAL_ROWS) + ((k - 1) \div GRID_COLS),
         col |-> (k - 1) % GRID_COLS]]

\* ------------------------------------------------------------------------
\* The session state a handler works on, as one record.
Cur ==
    [mode |-> mode, blocks |-> blocks, selectedIds |-> selectedIds,
     targetSum |-> targetSum, score |-> score, isGameOver |-> isGameOver,
     timeLeft |-> timeLeft, isPaused |-> isPaused, idCount |-> idCount,
     seed |-> seed]

\* Variant: the id is appended whether or not it is selected already.
Toggle_AlwaysAppends(prev, id) == Append(prev, id)

\* setSelectedIds updater of handleBlockClick
Toggle(prev, id) ==
    IF id \in Range(prev)
    THEN SelectSeq(prev, LAMBDA i : i # id)
    ELSE Append(prev, id)

\* Variant: the early return tests isPaused only.
handleBlockClick_IgnoresGameOver(st, id) ==
    IF st.isPaused THEN st
    ELSE [st EXCEPT !.selectedIds = Toggle(@, id)]

\* Variant: the early return tests isGameOver only.
handleBlockClick_IgnoresPause(st, id) ==
    IF st.isGameOver THEN st
    ELSE [st EXCEPT !.selectedIds = Toggle(@, id)]

handleBlockClick(st, id) ==
    IF st.isGameOver \/ st.isPaused THEN st
    ELSE [st EXCEPT !.selectedIds = Toggle(@, id)]

\* The two branches of the check-sum effect.
IsMatch(st) ==
    /\ Len(st.selectedIds) > 0
    /\ currentSum(st.blocks, st.selectedIds) = st.targetSum

\* Variant: a sum one above the target is let stand.
IsOvershoot_ByTwo(st) ==
    /\ ~IsMatch(st)
    /\ currentSum(st.blocks, st.selectedIds) > st.targetSum + 1

IsOvershoot(st) ==
    /\ ~IsMatch(st)
    /\ currentSum(st.blocks, st.selectedIds) > st.targetSum

\* Variant: the time bonus is added in classic mode too.
ScoreDelta_BonusInAnyMode(st) ==
    Len(st.selectedIds) * 10 + CeilTime(st.timeLeft)

\* prev + (count * 10) + (mode === 'time' ? Math.ceil(timeLeft) : 0)
ScoreDelta(st) ==
    Len(st.selectedIds) * 10
        + (IF st.mode = "time" THEN CeilTime(st.timeLeft) ELSE 0)

\* Variant: the match branch leaves timeLeft as it is.
ResolveMatch_KeepsTime(st, r) ==
    LET kept == RemoveSelected(st.blocks, st.selectedIds)
        adv  == IF st.mode = "classic"
                THEN addNewRow(kept, st.idCount + 1, st.seed)
                ELSE [blocks |-> kept, over |-> FALSE, made |-> 0]
    IN [st EXCEPT !.score = @ + ScoreDelta(st),
                  !.blocks = adv.blocks,
                  !.isGameOver = @ \/ adv.over,
                  !.idCount = @ + adv.made,
                  !.selectedIds = <<>>,
                  !.targetSum = generateTarget(r)]

\* Variant: the overflow of the row advancement is tested on the board as it
\* was before the selected tiles were removed.
ResolveMatch_ChecksBeforeRemoval(st, r) ==
    LET kept == RemoveSelected(st.blocks, st.selectedIds)
        adv  == IF st.mode # "classic"
                THEN [blocks |-> kept, over |-> FALSE, made |-> 0]
                ELSE IF Overflows(st.blocks)
                THEN [blocks |-> kept, over |-> TRUE, made |-> 0]
                ELSE addNewRow(kept, st.idCount + 1, st.seed)
    IN [st EXCEPT !.score = @ + ScoreDelta(st),
                  !.blocks = adv.blocks,
                  !.isGameOver = @ \/ adv.over,
                  !.idCount = @ + adv.made,
                  !.selectedIds = <<>>,
                  !.targetSum = generateTarget(r),
                  !.timeLeft = FullTime]

\* The match branch; r is the draw of generateTarget.
ResolveMatch(st, r) ==
    LET kept == RemoveSelected(st.blocks, st.selectedIds)
        adv  == IF st.mode = "classic"
                THEN addNewRow(kept, st.idCount + 1, st.seed)
                ELSE [blocks |-> kept, over |-> FALSE, made |-> 0]
    IN [st EXCEPT !.score = @ + ScoreDelta(st),
                  !.blocks = adv.blocks,
                  !.isGameOver = @ \/ adv.over,
                  !.idCount = @ + adv.made,
                  !.selectedIds = <<>>,
                  !.targetSum = generateTarget(r),
                  !.timeLeft = FullTime]

\* Variant: the overshoot branch takes the selected tiles off the board.
ResolveOvershoot_RemovesTiles(st) ==
    [st EXCEPT !.selectedIds = <<>>,
               !.blocks = RemoveSelected(st.blocks, st.selectedIds)]

\* Variant: the overshoot branch forfeits the score of the session.
ResolveOvershoot_ClearsScore(st) == [st EXCEPT !.selectedIds = <<>>, !.score = 0]

\* The overshoot branch.
ResolveOvershoot(st) == [st EXCEPT !.selectedIds = <<>>]

\* The check-sum effect on the state st of the committed render.
checkSum(st, r) ==
    IF IsMatch(st) THEN ResolveMatch(st, r)
    ELSE IF IsOvershoot(st) THEN ResolveOvershoot(st)
    ELSE st

\* Variant: a timeout restarts the round without calling addNewRow.
timerTick_NeverAdvances(st) ==
    IF NonPositive(st.timeLeft)
    THEN [st EXCEPT !.timeLeft = FullTime]
    ELSE [st EXCEPT !.timeLeft = @ - 1]

\* The interval callback: the setTimeLeft updater.
timerTick(st) ==
    IF NonPositive(st.timeLeft)
    THEN LET adv == addNewRow(st.blocks, st.idCount + 1, st.seed)
         IN [st EXCEPT !.blocks = adv.blocks,
                       !.isGameOver = @ \/ adv.over,
                       !.idCount = @ + adv.made,
                       !.timeLeft = FullTime]
    ELSE [st EXCEPT !.timeLeft = @ - 1]

\* Variant: startGame resets the session but leaves the board as it finds it.
startGame_KeepsBoard(st, m, r, sd) ==
    [st EXCEPT !.mode = m,
               !.isGameOver = FALSE,
               !.score = 0,
               !.selectedIds = <<>>,
               !.targetSum = generateTarget(r),
               !.timeLeft = FullTime]

startGame(st, m, r, sd) ==
    [st EXCEPT !.mode = m,
               !.isGameOver = FALSE,
               !.score = 0,
               !.selectedIds = <<>>,
               !.targetSum = generateTarget(r),
               !.timeLeft = FullTime,
               !.blocks = InitialBlocks(sd),
               !.idCount = INITIAL_ROWS * GRID_COLS,
               !.seed = sd]

\* Variant: the high score follows the score of the session.
updateHighScore_FollowsScore(s, h) == s

\* The update-high-score effect.
updateHighScore(s, h) == IF s > h THEN s ELSE h

\* ------------------------------------------------------------------------
\* Commit the state a handler and the effects after it leave behind.
Commit(st) ==
    /\ mode' = st.mode
    /\ isPaused' = st.isPaused
    /\ isGameOver' = st.isGameOver
    /\ timeLeft' = st.timeLeft
    /\ score' = st.score
    /\ targetSum' = st.targetSum
    /\ idCount' = st.idCount
    /\ seed' = st.seed
    /\ highScore' = updateHighScore(st.score, highScore)
    /\ selectedIds' = st.selectedIds
    /\ blocks' = st.blocks

\* React runs the check-sum effect after the render the handler caused; the
\* render that effect causes runs it once more, on an empty selection.
Settle(st) ==
    IF IsMatch(st)
    THEN \E r \in TargetDraws : Commit(checkSum(st, r))
    ELSE Commit(checkSum(st, 0))

\* ------------------------------------------------------------------------
\* The ids the player can click.
Min(S) == CHOOSE x \in S : \A y \in S : x <= y

\* The first ClickTiles buttons of blocks.map: blocks is kept in row-major
\* order (startGame builds it so, addNewRow appends the bottom row, filter
\* keeps the order), so these are the tiles nearest the top.
TopTiles(bs) ==
    {bs[i].id : i \in {j \in DOMAIN bs : j <= ClickTiles}}

\* The id of a tile that left the board (its button is still animating out).
StaleIds(bs, n) ==
    LET gone == (1 .. n) \ {bs[i].id : i \in DOMAIN bs}
    IN IF gone = {} THEN {} ELSE {Min(gone)}

ClickIds ==
    TopTiles(blocks) \cup StaleIds(blocks, idCount)

PlayerActs ==
    \/ mode # "time"
    \/ timeLeft > FullTime - InputWindow
    \/ timeLeft < InputWindow

ScoreCap == IF mode = "time" THEN MaxTimedScore ELSE MaxClassicScore

\* ------------------------------------------------------------------------
Init ==
    /\ mode = "none"
    /\ blocks = <<>>
    /\ selectedIds = <<>>
    /\ targetSum = 0
    /\ score = 0
    /\ isGameOver = FALSE
    /\ timeLeft = FullTime
    /\ highScore = 0
    /\ isPaused = FALSE
    /\ idCount = 0
    /\ seed = 1

\* A mode button of the menu, or "try again" of the game-over overlay.
StartGame ==
    /\ mode = "none" \/ isGameOver
    /\ highScore <= MaxCarriedHigh
    /\ \E m \in (IF mode = "none" THEN {"classic", "time"} ELSE {mode}) :
       \E r \in TargetDraws : \E sd \in Seeds :
           Settle(startGame(Cur, m, r, sd))

\* A click on a tile button of the board.
SelectTile ==
    /\ mode # "none" /\ PlayerActs
    /\ score < ScoreCap
    /\ \E id \in ClickIds : Settle(handleBlockClick(Cur, id))

\* The interval of the timer effect fires.
Tick ==
    /\ mode = "time" /\ ~isGameOver /\ ~isPaused
    /\ Settle(timerTick(Cur))

\* The pause button of the controls, or "resume" of the pause overlay.
TogglePause ==
    /\ mode # "none" /\ PlayerActs
    /\ Settle([Cur EXCEPT !.isPaused = ~isPaused])

\* setMode(null): the quit buttons of the controls and of both overlays.
Quit ==
    /\ mode # "none" /\ PlayerActs
    /\ Settle([Cur EXCEPT !.mode = "none"])

Next == StartGame \/ SelectTile \/ Tick \/ TogglePause \/ Quit

Spec == Init /\ [][Next]_vars

\* setInterval(..., 100) keeps firing for as long as the condition of the
\* timer effect holds, whatever the player does in between.
LiveSpec == Init /\ [][Next]_vars /\ WF_vars(Tick)

TypeOK ==
    /\ mode \in {"none", "classic", "time"}
    /\ targetSum \in {0} \cup (TARGET_BASE .. TARGET_BASE + TARGET_SPAN - 1)
    /\ \A i \in DOMAIN blocks : blocks[i].value \in 1 .. VALUE_SPAN
    /\ timeLeft \in -1 .. FullTime
    /\ score >= 0 /\ highScore >= 0
    /\ isGameOver \in BOOLEAN /\ isPaused \in BOOLEAN

\* ------------------------------------------------------------------------
\* Vocabulary of the properties
IdsOf(bs) == {bs[i].id : i \in DOMAIN bs}

HasRowZero(bs) == \E i \in DOMAIN bs : bs[i].row = 0

Active == mode # "none" /\ ~isGameOver /\ ~isPaused

\* A step of an active session that takes tiles off the board: a match.
MatchStep ==
    /\ mode # "none" /\ ~isGameOver
    /\ blocks' # blocks
    /\ ~(IdsOf(blocks) \subseteq IdsOf(blocks'))

\* Some tile that the step leaves on the board was at row 0 before it.
KeptHasRowZero ==
    LET ids == IdsOf(blocks')
    IN \E i \in DOMAIN blocks : blocks[i].row = 0 /\ blocks[i].id \in ids

\* The step adds no tile and moves none: every tile of the board after it
\* is a tile of the board before it, at the same row and column.
NoTileAddedOrMoved == Range(blocks') \subseteq Range(blocks)

\* A tick that finds the time run out and calls addNewRow.
TimeoutStep == NonPositive(timeLeft) /\ Tick

\* C1: a row advancement attempted while a tile of the board it works on is
\* at row 0 (the board of a time-mode timeout, or what a classic-mode match
\* leaves of the board) sets game-over, appends no row and leaves every
\* tile's row as it was.
C1_OverflowKeepsBoard ==
    [][ /\ (TimeoutStep /\ HasRowZero(blocks))
            => (isGameOver' /\ blocks' = blocks)
        /\ (mode = "classic" /\ MatchStep /\ KeptHasRowZero)
            => (isGameOver' /\ NoTileAddedOrMoved) ]_vars

C1_Witness == isGameOver /\ mode = "classic" /\ HasRowZero(blocks)

C1_WitnessTimed == isGameOver /\ mode = "time" /\ HasRowZero(blocks)

\* C2: in every reachable state no two tiles of the board have the same
\* (row, column).
C2_NoSharedCell ==
    Cardinality({<<blocks[i].row, blocks[i].col>> : i \in DOMAIN blocks})
        = Len(blocks)

\* A board that has lost tiles to a match and gained a row.
C2_Witness ==
    /\ Len(blocks) > INITIAL_ROWS * GRID_COLS
    /\ idCount > Len(blocks)

\* C3: once game-over is true, no click, tick or pause toggle (each with the
\* match evaluation that follows it) changes the board, the selection or the
\* score; only startGame changes them.
C3_GameOverTerminal ==
    [][ isGameOver => (StartGame \/ UNCHANGED <<blocks, selectedIds, score>>) ]_vars

\* Game over with a selection standing, and pause toggled after the end.
C3_Witness == isGameOver /\ isPaused /\ selectedIds # <<>>

\* C4: startGame leaves paused = false, score = 0, an empty selection,
\* game-over = false and time-remaining = TIME_LIMIT, whatever the state it
\* is called from.
C4_StartGameResetsSession ==
    [][ StartGame =>
            /\ ~isPaused'
            /\ score' = 0
            /\ selectedIds' = <<>>
            /\ ~isGameOver'
            /\ timeLeft' = FullTime ]_vars

\* C5: a click whose id references no tile of the board changes nothing; in
\* particular the id is not added to the selection.
C5_StaleClickIsNoOp ==
    [][ \A id \in StaleIds(blocks, idCount) :
            (mode # "none" /\ Settle(handleBlockClick(Cur, id)))
                => UNCHANGED vars ]_vars

\* C6: a tick whose decrement brings the time to zero or below advances a
\* row in that same tick and leaves the time at TIME_LIMIT; no tick leaves
\* the time at zero or below.
C6_TimeoutInSameTick ==
    [][ Tick =>
            /\ ~NonPositive(timeLeft')
            /\ NonPositive(timeLeft - 1) =>
                  /\ timeLeft' = FullTime
                  /\ isGameOver' \/ Len(blocks') = Len(blocks) + GRID_COLS ]_vars

\* Two clicks on id in succession, each with its match evaluation.
AfterOneClick(id) == checkSum(handleBlockClick(Cur, id), 0)

AfterTwoClicks(id) == checkSum(handleBlockClick(AfterOneClick(id), id), 0)

NoMatchInTwoClicks(id) ==
    /\ ~IsMatch(handleBlockClick(Cur, id))
    /\ ~IsMatch(handleBlockClick(AfterOneClick(id), id))

NoOvershootInTwoClicks(id) ==
    /\ ~IsOvershoot(handleBlockClick(Cur, id))
    /\ ~IsOvershoot(handleBlockClick(AfterOneClick(id), id))

\* C7, as claimed: in an unpaused state that is not game over, two clicks on
\* the same id with no match resolved by either leave the selection equal
\* to what it was.
C7_TwoClicksRestoreSelection ==
    Active =>
        \A id \in ClickIds :
            NoMatchInTwoClicks(id)
                => AfterTwoClicks(id).selectedIds = selectedIds

\* C7, as amended: with neither a match nor an overshoot resolved by either
\* click, the selection holds the same ids as before, in the same order when
\* id was not selected before, and with id moved to the end when it was.
C7_TwoClicksRestoreIds ==
    Active =>
        \A id \in ClickIds :
            (NoMatchInTwoClicks(id) /\ NoOvershootInTwoClicks(id)) =>
                LET after == AfterTwoClicks(id).selectedIds
                IN IF id \in Range(selectedIds)
                   THEN after = Append(SelectSeq(selectedIds, LAMBDA x : x # id), id)
                   ELSE after = selectedIds

\* A selected id that is not the last of the selection can be clicked twice
\* with no match and no overshoot.
C7_Witness ==
    /\ Active
    /\ \E id \in ClickIds :
        /\ id \in Range(selectedIds)
        /\ selectedIds[Len(selectedIds)] # id
        /\ NoMatchInTwoClicks(id) /\ NoOvershootInTwoClicks(id)

\* C8: in every reachable state every id of the selection references a tile
\* of the board.
C8_SelectionOnBoard == Range(selectedIds) \subseteq IdsOf(blocks)

\* C9: a match adds exactly 10 * (number of selected ids) to the score, plus
\* ceil(time-remaining) in time mode only; no other step of a session
\* changes the score.  The click that completes a match adds its id to the
\* selection, so the number of selected ids is Len(selectedIds) + 1.
C9_ScoreOnlyByMatch ==
    [][ IF MatchStep
        THEN score' = score + 10 * (Len(selectedIds) + 1)
                        + (IF mode = "time" THEN CeilTime(timeLeft) ELSE 0)
        ELSE score' = score \/ StartGame ]_vars

\* A time-mode match of two tiles made when the time had run down to
\* 1.88e-14: 20 points and a bonus of ceil(1.88e-14) = 1.
C9_Witness == mode = "time" /\ score = 21

\* C10: a click that makes the sum of the selected tiles exceed the target
\* empties the selection and leaves score, board, target and game-over as
\* they were.
C10_OvershootOnlyClearsSelection ==
    [][ \A id \in ClickIds :
            ( /\ Active
              /\ currentSum(blocks, Toggle(selectedIds, id)) > targetSum
              /\ Settle(handleBlockClick(Cur, id)) )
                => /\ selectedIds' = <<>>
                   /\ UNCHANGED <<score, blocks, targetSum, isGameOver>> ]_vars

\* An overshooting click on a tile is at hand with a tile already selected.
C10_Witness ==
    /\ Active /\ PlayerActs /\ score < ScoreCap
    /\ selectedIds # <<>>
    /\ \E id \in ClickIds :
        currentSum(blocks, Toggle(selectedIds, id)) > targetSum

\* The click on id that completes a match, with the effect that resolves it
\* (a click in a paused or ended session changes no selection).
MatchByClick(id) ==
    /\ Active
    /\ IsMatch(handleBlockClick(Cur, id))
    /\ Settle(handleBlockClick(Cur, id))

TargetRange == TARGET_BASE .. (TARGET_BASE + TARGET_SPAN - 1)

\* C11: in either mode, resolving a match takes exactly the selected tiles
\* off the board (the tiles that leave are the tiles whose id is in the
\* matched selection), empties the selection, sets the target to a value in
\* 10 .. 25 and sets the time to TIME_LIMIT.
C11_MatchResolution ==
    [][ \A id \in ClickIds :
            MatchByClick(id) =>
                /\ IdsOf(blocks) \ IdsOf(blocks')
                       = Range(Toggle(selectedIds, id)) \cap IdsOf(blocks)
                /\ selectedIds' = <<>>
                /\ targetSum' \in TargetRange
                /\ timeLeft' = FullTime ]_vars

\* A classic-mode session after its second match: 4 tiles gone, 12 added.
C11_Witness ==
    /\ mode = "classic" /\ ~isGameOver
    /\ score >= 40
    /\ selectedIds = <<>>
    /\ Len(blocks) = INITIAL_ROWS * GRID_COLS + 2 * GRID_COLS - 4

\* C12: in classic mode a match that does not end the game changes the
\* number of tiles of the board by exactly GRID_COLS - selectedCount, where
\* selectedCount is the length of the matched selection (the count the score
\* is computed from): the selected tiles are removed, every remaining tile
\* moves up one row, and one full row is added at row GRID_ROWS - 1.
C12_ClassicMatchNetChange ==
    [][ \A id \in ClickIds :
            (mode = "classic" /\ MatchByClick(id) /\ ~isGameOver') =>
                LET sel  == Toggle(selectedIds, id)
                    kept == RemoveSelected(blocks, sel)
                IN /\ Len(blocks') = Len(blocks) + GRID_COLS - Len(sel)
                   /\ SubSeq(blocks', 1, Len(kept)) = Shifted(kept)
                   /\ \A c \in 1 .. GRID_COLS :
                         /\ blocks'[Len(kept) + c].row = GRID_ROWS - 1
                         /\ blocks'[Len(kept) + c].col = c - 1 ]_vars

\* C13: within one session the score never decreases: every step that is not
\* a startGame (a click, a tick, a pause toggle, a row advancement, a quit)
\* leaves the score at least what it was.
C13_ScoreNeverDecreases ==
    [][ score' >= score \/ StartGame ]_vars

\* A paused time-mode session that has scored and has been advanced a row.
C13_Witness ==
    /\ mode = "time" /\ isPaused /\ ~isGameOver
    /\ score > 0
    /\ idCount > INITIAL_ROWS * GRID_COLS

\* C14: while paused, a click commits the state it found (the handler
\* returns at once and the effects find nothing to do) and no tick occurs
\* (the interval is cleared), so that board, selection, score, target and
\* time at resume are what they were at the moment of pausing; and a step
\* that changes the paused flag is a pause toggle, which changes the paused
\* flag only.
C14_PauseFreezesSession ==
    /\ [](isPaused /\ mode # "none" =>
              \A id \in ClickIds : \A r \in TargetDraws :
                  /\ checkSum(handleBlockClick(Cur, id), r) = Cur
                  /\ updateHighScore(score, highScore) = highScore)
    /\ [][ /\ isPaused =>
                /\ ~Tick
                /\ \/ UNCHANGED <<score, targetSum, timeLeft, isGameOver,
                                  selectedIds, blocks>>
                   \/ StartGame
           /\ isPaused' # isPaused =>
                /\ TogglePause
                /\ UNCHANGED <<mode, targetSum, score, isGameOver, timeLeft,
                               highScore, idCount, seed, selectedIds, blocks>>
         ]_vars

\* A time-mode session paused in mid-round with a tile selected, where a
\* click is at hand.
C14_Witness ==
    /\ mode = "time" /\ isPaused /\ ~isGameOver
    /\ selectedIds # <<>>
    /\ timeLeft < FullTime
    /\ PlayerActs /\ score < ScoreCap

\* C15: after every completed transition the high score is at least the
\* score, and no transition (startGame and quit included) lowers the high
\* score.
C15_HighScoreKept ==
    [][ highScore' >= score' /\ highScore' >= highScore ]_vars

\* A new session begun after a session that scored: the high score outlives
\* the score it came from.
C15_Witness ==
    /\ mode # "none"
    /\ score = 0
    /\ highScore > 0
    /\ Len(blocks) = INITIAL_ROWS * GRID_COLS /\ idCount = Len(blocks)

\* The cells of the INITIAL_ROWS bottom rows.
InitialCells ==
    ((GRID_ROWS - INITIAL_ROWS) .. (GRID_ROWS - 1)) \X (0 .. (GRID_COLS - 1))

CellsOf(bs) == {<<bs[i].row, bs[i].col>> : i \in DOMAIN bs}

\* C16: immediately after startGame the board holds exactly
\* INITIAL_ROWS * GRID_COLS = 24 tiles, one in every column of each of the rows
\* 6 .. 9 and none in the rows 0 .. 5, whatever the board held before.
C16_StartGameFillsBottomRows ==
    [][ StartGame =>
            /\ Len(blocks') = INITIAL_ROWS * GRID_COLS
            /\ CellsOf(blocks') = InitialCells ]_vars

\* A session begun on top of an earlier one that had made one match, and so
\* had left a board of other than 24 tiles behind.
C16_Witness ==
    /\ mode = "time" /\ ~isGameOver
    /\ score = 0 /\ highScore = 20
    /\ timeLeft = FullTime
    /\ CellsOf(blocks) = InitialCells

\* C17: in classic mode the overflow check of the row advancement that
\* follows a match is made on the board without the selected tiles: the
\* match ends the game if and only if a tile that is not in the selection is
\* at row 0 (and then the board is what the removal left); if every tile of
\* row 0 was in the selection the game goes on, the tiles that remain move
\* up and a row of GRID_COLS tiles is added.
C17_OverflowCheckedAfterRemoval ==
    [][ \A id \in ClickIds :
            (mode = "classic" /\ MatchByClick(id)) =>
                LET kept == RemoveSelected(blocks, Toggle(selectedIds, id))
                IN /\ isGameOver' <=> HasRowZero(kept)
                   /\ HasRowZero(kept) => blocks' = kept
                   /\ ~HasRowZero(kept) =>
                         /\ Len(blocks') = Len(kept) + GRID_COLS
                         /\ SubSeq(blocks', 1, Len(kept)) = Shifted(kept) ]_vars

\* A classic-mode session that has gone through nine row advancements, hence
\* nine matches, and has lost 18 tiles: two tiles per match (no single tile
\* reaches a target of 10), all taken from the top of the board, so that the
\* ninth match found the last two tiles of the third initial row at row 0,
\* removed both, and the game went on.
C17_Witness ==
    /\ mode = "classic" /\ ~isGameOver
    /\ idCount = INITIAL_ROWS * GRID_COLS + 9 * GRID_COLS
    /\ Len(blocks) = idCount - 18
    /\ HasRowZero(blocks)

\* C18: in every state of a session, once a selection change and the match
\* evaluation after it have completed, the sum of the values of the selected
\* tiles is strictly less than the target: no exact or overshooting
\* selection is left standing, also after row advancements and new targets.
C18_SumBelowTarget ==
    mode # "none" => currentSum(blocks, selectedIds) < targetSum

\* A selection that stands, in a session that has resolved a match (new
\* target) and has been advanced a row.
C18_Witness ==
    /\ Active
    /\ currentSum(blocks, selectedIds) > 0
    /\ score > 0
    /\ idCount > INITIAL_ROWS * GRID_COLS

\* C19: in every reachable state, game-over implies that some tile of the
\* board is at row 0, and every tile of the board has its row in
\* 0 .. GRID_ROWS - 1 and its column in 0 .. GRID_COLS - 1: no tile is ever
\* stored at a negative row.
C19_GameOverAtTopRow ==
    /\ isGameOver => HasRowZero(blocks)
    /\ \A i \in DOMAIN blocks :
          /\ blocks[i].row \in 0 .. (GRID_ROWS - 1)
          /\ blocks[i].col \in 0 .. (GRID_COLS - 1)

\* A time-mode session that made a match and was then ended by a timeout.
C19_Witness ==
    /\ isGameOver /\ mode = "time"
    /\ score > 0
    /\ HasRowZero(blocks)

\* An active, unpaused time-mode session.
TimeActive == mode = "time" /\ Active

\* A step in which a match is resolved, pause is toggled, or startGame or
\* quit is invoked.
Interferes == MatchStep \/ TogglePause \/ StartGame \/ Quit

\* C20: with the interval firing for as long as it is set, if from some
\* point on no match is resolved, pause is not toggled and neither startGame
\* nor quit is invoked, then every active, unpaused time-mode state is
\* followed by game-over, unless the session was paused or left first; and in
\* classic mode no tick occurs, and nothing but a match or a startGame
\* changes the board or the game-over flag.
C20_TimedSessionEnds ==
    /\ (<>[][~Interferes]_vars)
           => [](TimeActive => <>(isGameOver \/ isPaused \/ mode # "time"))
    /\ [][ mode = "classic" =>
              /\ ~Tick
              /\ (UNCHANGED <<blocks, isGameOver>> \/ MatchStep \/ StartGame)
         ]_vars

\* A time-mode session ended by timeouts alone: no match was made, six rows
\* were added under the four initial ones, and the seventh timeout found the
\* top row at row 0.
C20_Witness ==
    /\ isGameOver /\ mode = "time"
    /\ score = 0
    /\ Len(blocks) = (INITIAL_ROWS + 6) * GRID_COLS

====
